---- MODULE Spec2Model ----
(***************************************************************************)
(* Model of the chat client of nextjs-chatgpt-demo: the Conversation page  *)
(* (src/pages/index.tsx), its Composer (src/components/Composer.tsx) and   *)
(* the Settings store (src/unnamed/part_002).                              *)
(*                                                                         *)
(* Strings are sequences of one-character strings.  A response body is a   *)
(* sequence of bytes: an ASCII byte is written as its character, the two   *)
(* bytes of the UTF-8 encoding of U+00E9 are written "C3" and "A9".        *)
(***************************************************************************)
EXTENDS Integers, Sequences, FiniteSets, TLC

VARIABLES
  messages,        \* Conversation: React state `messages`, a list of references (uids)
  objs,            \* the UiMessage objects, indexed by uid
  disableCompose,  \* Conversation: React state `disableCompose`
  settingsShown,   \* Conversation: React state `settingsShown`
  composeText,     \* Composer: React state `composeText`
  menuMessages,    \* Composer: React state `messages` (history menu)
  lsHistory,       \* localStorage 'app-composer-history'
  lsApiKey,        \* localStorage 'app-settings-openai-api-key'
  req,             \* the calls of getBotMessageStreaming, by send number
  nsent,           \* number of calls of handleComposerSendMessage so far
  relay,           \* the relay's handler and its output stream (src/unnamed/part_001)
  voice,           \* the dictation dialog (Voice) and the Composer's isRecording
  render,          \* a ChatMessage: its text and the blocks it is rendered as
  settings         \* the Settings dialog's fields and the stored model (src/unnamed/part_002)

\* the state outside the Conversation page and its Composer
elsewhere == <<relay, voice, render, settings>>

vars == <<messages, objs, disableCompose, settingsShown, composeText,
          menuMessages, lsHistory, lsApiKey, req, nsent, elsewhere>>

-----------------------------------------------------------------------------
(* Bounds *)

MaxSends == 2
MaxTail == 3
MaxHist == 3

-----------------------------------------------------------------------------
(* Strings *)

Quote == "\""

Replacement == "U+FFFD"

EAcute == "U+00E9"

StartsWith(s, c) == Len(s) > 0 /\ s[1] = c

RECURSIVE IndexFrom(_, _, _)
IndexFrom(s, c, i) ==
  IF i > Len(s) THEN 0
  ELSE IF s[i] = c THEN i
  ELSE IndexFrom(s, c, i + 1)

\* String.prototype.indexOf: 0-based position of the first c, -1 when absent
IndexOf(s, c) == IndexFrom(s, c, 1) - 1

\* String.prototype.substring(from, to) and substring(from), 0-based
Substring(s, from, to) == SubSeq(s, from + 1, to)

SubstringFrom(s, from) == SubSeq(s, from + 1, Len(s))

Contains(s, t) ==
  \E i \in 0..(Len(s) - Len(t)) : SubSeq(s, i + 1, i + Len(t)) = t

IsPrefix(p, s) == Len(p) <= Len(s) /\ SubSeq(s, 1, Len(p)) = p

\* what String.prototype.trim removes
WhiteSpace == {" ", "\n", "\t"}

RECURSIVE TrimStart(_)
TrimStart(s) ==
  IF Len(s) > 0 /\ s[1] \in WhiteSpace THEN TrimStart(Tail(s)) ELSE s

RECURSIVE TrimEnd(_)
TrimEnd(s) ==
  IF Len(s) > 0 /\ s[Len(s)] \in WhiteSpace THEN TrimEnd(SubSeq(s, 1, Len(s) - 1)) ELSE s

\* String.prototype.trim
Trim(s) == TrimEnd(TrimStart(s))

-----------------------------------------------------------------------------
(* TextDecoder('utf-8').decode(value), called without {stream: true}: every *)
(* chunk is decoded on its own, and a byte sequence cut by the chunk        *)
(* boundary is replaced by U+FFFD.                                          *)

LeadByte == "C3"

ContinuationByte == "A9"

RECURSIVE TextDecode(_)
TextDecode(value) ==
  IF value = <<>> THEN <<>>
  ELSE IF value[1] = LeadByte
    THEN IF Len(value) >= 2 /\ value[2] = ContinuationByte
           THEN <<EAcute>> \o TextDecode(SubSeq(value, 3, Len(value)))
           ELSE <<Replacement>> \o TextDecode(Tail(value))
  ELSE IF value[1] = ContinuationByte
    THEN <<Replacement>> \o TextDecode(Tail(value))
  ELSE <<value[1]>> \o TextDecode(Tail(value))

-----------------------------------------------------------------------------
(* JSON.parse on a text that starts with '{', over the characters of the   *)
(* model (no whitespace, escapes, digits outside strings or literals): an  *)
(* object whose members are "key":"value" pairs.  The result is the        *)
(* object's `model` property, Undefined when the object has none.          *)

Undefined == <<"undefined">>

Falsy(v) == v = <<>> \/ v = Undefined

ModelKey == <<"m", "o", "d", "e", "l">>

ParseFail == [ok |-> FALSE, model |-> Undefined]

RECURSIVE ParseMembers(_, _, _)
ParseMembers(s, i, model) ==
  IF i > Len(s) \/ s[i] # Quote THEN ParseFail
  ELSE LET kEnd == IndexFrom(s, Quote, i + 1) IN
    IF kEnd = 0 \/ kEnd + 2 > Len(s) THEN ParseFail
    ELSE IF s[kEnd + 1] # ":" \/ s[kEnd + 2] # Quote THEN ParseFail
    ELSE LET vEnd == IndexFrom(s, Quote, kEnd + 3) IN
      IF vEnd = 0 \/ vEnd + 1 > Len(s) THEN ParseFail
      ELSE LET key == SubSeq(s, i + 1, kEnd - 1)
               val == SubSeq(s, kEnd + 3, vEnd - 1)
               model2 == IF key = ModelKey THEN val ELSE model
           IN IF s[vEnd + 1] = "}" /\ vEnd + 1 = Len(s)
                THEN [ok |-> TRUE, model |-> model2]
              ELSE IF s[vEnd + 1] = ","
                THEN ParseMembers(s, vEnd + 2, model2)
              ELSE ParseFail

JSONparse(s) ==
  IF Len(s) < 2 \/ s[1] # "{" THEN ParseFail
  ELSE IF s = <<"{", "}">> THEN [ok |-> TRUE, model |-> Undefined]
  ELSE ParseMembers(s, 2, Undefined)

-----------------------------------------------------------------------------
(* createUiMessage and the body of the read loop of getBotMessageStreaming *)

createUiMessage(role, text) == [role |-> role, text |-> text, model |-> <<>>]

\* lines 83-100: the new state of newBotMessage after one chunk, and whether
\* JSON.parse was called on it
DecodeChunk(m, value) ==
  LET messageText == TextDecode(value)
      text == m.text \o messageText
  IN IF Falsy(m.model) /\ StartsWith(text, "{")
       THEN LET endOfJson == IndexOf(text, "}") IN
         IF endOfJson > 0
           THEN LET json == Substring(text, 0, endOfJson + 1)
                    parsed == JSONparse(json)
                IN IF parsed.ok
                     THEN [msg |-> [m EXCEPT !.model = parsed.model,
                                             !.text = SubstringFrom(text, endOfJson + 1)],
                           parsed |-> TRUE, stripped |-> TRUE]
                     ELSE [msg |-> [m EXCEPT !.text = text],
                           parsed |-> TRUE, stripped |-> FALSE]
           ELSE [msg |-> [m EXCEPT !.text = text], parsed |-> FALSE, stripped |-> FALSE]
       ELSE [msg |-> [m EXCEPT !.text = text], parsed |-> FALSE, stripped |-> FALSE]

-----------------------------------------------------------------------------
(* Settings store (src/unnamed/part_002) *)

loadOpenAIApiKey == lsApiKey

isValidOpenAIApiKey(apiKey) ==
  /\ apiKey # <<>>
  /\ IsPrefix(<<"s", "k", "-">>, apiKey)
  /\ Len(apiKey) > 40

\* a key of 41 characters that starts with 'sk-'
GoodKey == [i \in 1..41 |-> IF i = 1 THEN "s" ELSE IF i = 2 THEN "k" ELSE IF i = 3 THEN "-" ELSE "A"]

-----------------------------------------------------------------------------
(* Composer history (src/components/Composer.tsx) *)

MaxMessages == 20

loadMessagesFromHistory == lsHistory

Min(a, b) == IF a < b THEN a ELSE b

\* without the filter of line 39
appendMessageToHistory_NoFilter(stored, text) ==
  LET composedMessages == <<text>> \o stored
  IN SubSeq(composedMessages, 1, Min(MaxMessages, Len(composedMessages)))

\* without the slice of line 41
appendMessageToHistory_NoSlice(stored, text) ==
  LET optimizedText == Trim(text)
      Keep(m) == Trim(m) # optimizedText
  IN <<text>> \o SelectSeq(stored, Keep)

\* lines 38-41: the list written back to localStorage
appendMessageToHistory(stored, text) ==
  LET optimizedText == Trim(text)
      Keep(m) == Trim(m) # optimizedText
      composedMessages == <<text>> \o SelectSeq(stored, Keep)
  IN SubSeq(composedMessages, 1, Min(MaxMessages, Len(composedMessages)))

-----------------------------------------------------------------------------
(* The relay's answers and the texts the user types *)

Preamble == <<"{", "\"", "m", "o", "d", "e", "l", "\"", ":", "\"", "g", "p", "t", "-", "4", "\"", "}">>

Gpt4 == <<"g", "p", "t", "-", "4">>

Hello == <<"H", "e", "l", "l", "o">>

ErrorBody == <<"{", "\"", "e", "r", "r", "o", "r", "\"", ":", "\"", "o", "v", "e", "r", "l", "o", "a", "d", "e", "d", "\"", "}">>

Overloaded == <<"o", "v", "e", "r", "l", "o", "a", "d", "e", "d">>

Code503 == <<"5", "0", "3">>

\* the message of the TypeError a rejected fetch or read carries
ErrorText == <<"F", "a", "i", "l", "e", "d", " ", "t", "o", " ", "f", "e", "t", "c", "h">>

Response(status, hasBody, body) == [status |-> status, hasBody |-> hasBody, body |-> body]

Responses ==
  { Response(200, TRUE, Preamble \o Hello),
    Response(503, TRUE, ErrorBody),
    Response(204, FALSE, <<>>) }

IsOk(status) == status >= 200 /\ status <= 299

ComposeTexts == { <<"h", "i">>, <<" ", "h", "i">>, <<" ">> }

-----------------------------------------------------------------------------
(* State *)

Range(s) == { s[k] : k \in 1..Len(s) }

Requests == 1..MaxSends

NoReq ==
  [pc |-> "none", status |-> 0, stream |-> <<>>, rest |-> <<>>, bot |-> 0,
   attempts |-> 0, strips |-> 0, apiKey |-> <<>>]

InFlight(i) == req[i].pc \in {"fetch", "read", "returned"}

\* `res` of OpenAIStream when the upstream fetch was rejected: the .catch of
\* part_001 lines 62-65 returns nothing
NoRes == [defined |-> FALSE, ok |-> FALSE, status |-> "", statusText |-> "", json |-> ""]

\* no request has reached the relay
RelayIdle ==
  [pc |-> "idle", res |-> NoRes, fed |-> <<>>, status |-> 0, body |-> <<>>,
   state |-> "none", sentFirstPacket |-> FALSE]

\* 请开始讲话, the text the dialog starts with
StartSpeaking == <<"Please start speaking">>

\* the dictation dialog is closed and has not been used
VoiceIdle ==
  [open |-> FALSE, recordingState |-> "start", message |-> StartSpeaking,
   timer |-> FALSE, recognition |-> "none", stopping |-> FALSE]

\* no message has been rendered
RenderIdle == [text |-> <<>>, blocks |-> <<>>, done |-> FALSE]

\* "gpt-4", the fallback of loadGptModel and of handleGptModelChange
DefaultModel == <<"g", "p", "t", "-", "4">>

\* the Settings component after its first render, part_002 lines 45-46, with
\* no model stored
SettingsInit == [apiKey |-> loadOpenAIApiKey, gptModel |-> DefaultModel, lsGptModel |-> <<>>]

ElsewhereInit ==
  /\ relay = RelayIdle
  /\ voice = VoiceIdle
  /\ render = RenderIdle
  /\ settings = SettingsInit

\* the page without the mount effect of lines 57-60
InitWith_NoMountEffect(key, history) ==
  /\ messages = <<>>
  /\ objs = <<>>
  /\ disableCompose = FALSE
  /\ settingsShown = FALSE
  /\ composeText = <<>>
  /\ menuMessages = history
  /\ lsHistory = history
  /\ lsApiKey = key
  /\ req = [i \in Requests |-> NoReq]
  /\ nsent = 0
  /\ ElsewhereInit

\* the page after the mount effect of Conversation (index.tsx lines 57-60)
PageInit(key, history) ==
  /\ messages = <<>>
  /\ objs = <<>>
  /\ disableCompose = FALSE
  /\ settingsShown = ~isValidOpenAIApiKey(key)
  /\ composeText = <<>>
  /\ menuMessages = history
  /\ lsHistory = history
  /\ lsApiKey = key
  /\ req = [i \in Requests |-> NoReq]
  /\ nsent = 0

\* the mount effect of Conversation (index.tsx lines 57-60) has run
InitWith(key, history) == PageInit(key, history) /\ ElsewhereInit

Init == \E key \in {<<>>, GoodKey} : InitWith(key, <<>>)

-----------------------------------------------------------------------------
(* Conversation (src/pages/index.tsx) *)

\* the Settings dialog and the Voice dialog are Modals: while one is open the
\* page under it takes no clicks and no key presses
PageActive == ~settingsShown /\ ~voice.open

OpenSettings ==
  /\ PageActive
  /\ settingsShown' = TRUE
  /\ UNCHANGED <<messages, objs, disableCompose, composeText, menuMessages,
                 lsHistory, lsApiKey, req, nsent, elsewhere>>

CloseSettings ==
  /\ settingsShown
  /\ settingsShown' = FALSE
  /\ UNCHANGED <<messages, objs, disableCompose, composeText, menuMessages,
                 lsHistory, lsApiKey, req, nsent, elsewhere>>

\* handleListClear removing the last entry only
handleListClear_DropLast ==
  /\ PageActive
  /\ messages' = SubSeq(messages, 1, Len(messages) - 1)
  /\ UNCHANGED <<objs, disableCompose, settingsShown, composeText, menuMessages,
                 lsHistory, lsApiKey, req, nsent, elsewhere>>

handleListClear ==
  /\ PageActive
  /\ messages' = <<>>
  /\ UNCHANGED <<objs, disableCompose, settingsShown, composeText, menuMessages,
                 lsHistory, lsApiKey, req, nsent, elsewhere>>

\* lines 110-122, up to the fetch call of getBotMessageStreaming
handleComposerSendMessage(text) ==
  /\ nsent < MaxSends
  /\ objs' = Append(objs, createUiMessage("user", text))
  /\ messages' = Append(messages, Len(objs) + 1)
  /\ disableCompose' = TRUE
  /\ req' = [req EXCEPT ![nsent + 1] = [NoReq EXCEPT !.pc = "fetch", !.apiKey = loadOpenAIApiKey]]
  /\ nsent' = nsent + 1

\* line 67: the fetch promise resolves with a response
FetchResolve(i, r) ==
  /\ req[i].pc = "fetch"
  /\ IF r.hasBody
       THEN /\ objs' = Append(objs, createUiMessage("assistant", <<>>))
            /\ req' = [req EXCEPT ![i].pc = "read", ![i].status = r.status,
                                  ![i].stream = r.body, ![i].rest = r.body,
                                  ![i].bot = Len(objs) + 1]
       ELSE /\ objs' = objs
            /\ req' = [req EXCEPT ![i].pc = "returned", ![i].status = r.status]
  /\ UNCHANGED <<messages, disableCompose, settingsShown, composeText, menuMessages,
                 lsHistory, lsApiKey, nsent, elsewhere>>

\* line 67: the fetch promise rejects; nothing catches it and the then-callback
\* of line 121 does not run
FetchReject(i) ==
  /\ req[i].pc = "fetch"
  /\ req' = [req EXCEPT ![i].pc = "failed"]
  /\ UNCHANGED <<messages, objs, disableCompose, settingsShown, composeText,
                 menuMessages, lsHistory, lsApiKey, nsent, elsewhere>>

\* the updater of lines 102-105, appending without the lookup
UpdateList_AlwaysAppend(list, uid) == Append(list, uid)

\* the updater of lines 102-105, never appending
UpdateList_NeverAppend(list, uid) == list

\* the updater of lines 102-105: the message is looked up by uid and appended
\* when it is not in the list
UpdateList(list, uid) ==
  IF \E k \in 1..Len(list) : list[k] = uid THEN list ELSE Append(list, uid)

\* lines 80-105: read() delivers the next n bytes
ReadChunk(i, n) ==
  /\ req[i].pc = "read"
  /\ n \in 1..Len(req[i].rest)
  /\ LET r == req[i]
         d == DecodeChunk(objs[r.bot], SubSeq(r.rest, 1, n))
     IN /\ objs' = [objs EXCEPT ![r.bot] = d.msg]
        /\ messages' = UpdateList(messages, r.bot)
        /\ req' = [req EXCEPT ![i].rest = SubSeq(r.rest, n + 1, Len(r.rest)),
                              ![i].attempts = @ + (IF d.parsed THEN 1 ELSE 0),
                              ![i].strips = @ + (IF d.stripped THEN 1 ELSE 0)]
  /\ UNCHANGED <<disableCompose, settingsShown, composeText, menuMessages,
                 lsHistory, lsApiKey, nsent, elsewhere>>

\* lines 80-81: read() reports done, the loop breaks and the function returns
ReadDone(i) ==
  /\ req[i].pc = "read"
  /\ req[i].rest = <<>>
  /\ req' = [req EXCEPT ![i].pc = "returned"]
  /\ UNCHANGED <<messages, objs, disableCompose, settingsShown, composeText,
                 menuMessages, lsHistory, lsApiKey, nsent, elsewhere>>

\* line 80: read() rejects; nothing catches it
ReadReject(i) ==
  /\ req[i].pc = "read"
  /\ req' = [req EXCEPT ![i].pc = "failed"]
  /\ UNCHANGED <<messages, objs, disableCompose, settingsShown, composeText,
                 menuMessages, lsHistory, lsApiKey, nsent, elsewhere>>

\* the then-callback without setDisableCompose(false)
ThenCallback_NoRelease(i) ==
  /\ req[i].pc = "returned"
  /\ req' = [req EXCEPT ![i].pc = "finished"]
  /\ UNCHANGED <<messages, objs, disableCompose, settingsShown, composeText,
                 menuMessages, lsHistory, lsApiKey, nsent, elsewhere>>

\* line 121: the then-callback of the promise getBotMessageStreaming returned
ThenCallback(i) ==
  /\ req[i].pc = "returned"
  /\ disableCompose' = FALSE
  /\ req' = [req EXCEPT ![i].pc = "finished"]
  /\ UNCHANGED <<messages, objs, settingsShown, composeText, menuMessages,
                 lsHistory, lsApiKey, nsent, elsewhere>>

-----------------------------------------------------------------------------
(* Composer (src/components/Composer.tsx) *)

ChangeComposeText(t) ==
  /\ PageActive
  /\ composeText' = t
  /\ UNCHANGED <<messages, objs, disableCompose, settingsShown, menuMessages,
                 lsHistory, lsApiKey, req, nsent, elsewhere>>

\* lines 51-58
handleSendClicked ==
  LET text == Trim(composeText) IN
    IF Len(text) > 0
      THEN /\ composeText' = <<>>
           /\ handleComposerSendMessage(text)
           /\ lsHistory' = appendMessageToHistory(loadMessagesFromHistory, text)
           /\ UNCHANGED <<settingsShown, menuMessages, lsApiKey, elsewhere>>
      ELSE UNCHANGED vars

\* line 117: the Send button, disabled while disableSend
SendClicked ==
  /\ PageActive
  /\ ~disableCompose
  /\ handleSendClicked

\* Enter sends without looking at disableSend
handleKeyPress_NoDisableCheck ==
  /\ PageActive
  /\ handleSendClicked

\* lines 74-79: Enter without Shift in the text area
handleKeyPress ==
  /\ PageActive
  /\ IF ~disableCompose THEN handleSendClicked ELSE UNCHANGED vars

-----------------------------------------------------------------------------
(* The page as a whole *)

Next ==
  \/ OpenSettings
  \/ CloseSettings
  \/ handleListClear
  \/ \E t \in ComposeTexts : ChangeComposeText(t)
  \/ SendClicked
  \/ handleKeyPress
  \/ \E i \in Requests, r \in Responses : FetchResolve(i, r)
  \/ \E i \in Requests : FetchReject(i)
  \/ \E i \in Requests : \E n \in 1..Len(req[i].rest) : ReadChunk(i, n)
  \/ \E i \in Requests : ReadDone(i)
  \/ \E i \in Requests : ReadReject(i)
  \/ \E i \in Requests : ThenCallback(i)

Spec == Init /\ [][Next]_vars

\* the microtask that runs the then-callback is always scheduled
FairSpec == Spec /\ \A i \in Requests : WF_vars(ThenCallback(i))

-----------------------------------------------------------------------------
(* The stream decoder on its own: one request whose response has arrived,  *)
(* with the body drawn from Streams and cut into chunks in every way.      *)

SeqsUpTo(S, n) == UNION { [1..k -> S] : k \in 0..n }

EmptyObject == <<"{", "}">>

NestedObject == <<"{", "\"", "a", "\"", ":", "{", "}", "}">>

Heads == { <<>>, Preamble, EmptyObject, NestedObject }

TailBytes == { "{", "}", "x", LeadByte, ContinuationByte }

Streams == { h \o t : h \in Heads, t \in SeqsUpTo(TailBytes, MaxTail) }

Hi == <<"h", "i">>

\* the state after the user sent "hi" and the response headers arrived
InitDecode ==
  \E s \in Streams :
    /\ messages = <<1>>
    /\ objs = <<createUiMessage("user", Hi), createUiMessage("assistant", <<>>)>>
    /\ disableCompose = TRUE
    /\ settingsShown = FALSE
    /\ composeText = <<>>
    /\ menuMessages = <<>>
    /\ lsHistory = <<Hi>>
    /\ lsApiKey = GoodKey
    /\ req = [i \in Requests |->
                IF i = 1
                  THEN [NoReq EXCEPT !.pc = "read", !.status = 200, !.stream = s,
                                     !.rest = s, !.bot = 2, !.apiKey = GoodKey]
                  ELSE NoReq]
    /\ nsent = 1
    /\ ElsewhereInit

NextDecode ==
  \/ \E i \in Requests : \E n \in 1..Len(req[i].rest) : ReadChunk(i, n)
  \/ \E i \in Requests : ReadDone(i)
  \/ \E i \in Requests : ThenCallback(i)

SpecDecode == InitDecode /\ [][NextDecode]_vars

-----------------------------------------------------------------------------
(* What a stream is, read as a whole: its text, and the JSON object it     *)
(* starts with                                                             *)

\* the text of the whole body
Whole(stream) == TextDecode(stream)

NoObject == [end |-> 0, model |-> Undefined]

RECURSIVE ObjectAt(_, _)
RECURSIVE MembersAt(_, _, _)
\* the JSON object that starts at s[i]: the position of its closing brace
\* (0 when there is no such object) and its top-level `model`
ObjectAt(s, i) ==
  IF i + 1 > Len(s) \/ s[i] # "{" THEN NoObject
  ELSE IF s[i + 1] = "}" THEN [end |-> i + 1, model |-> Undefined]
  ELSE MembersAt(s, i + 1, Undefined)

MembersAt(s, i, model) ==
  IF i > Len(s) \/ s[i] # Quote THEN NoObject
  ELSE LET kEnd == IndexFrom(s, Quote, i + 1) IN
    IF kEnd = 0 \/ kEnd + 2 > Len(s) THEN NoObject
    ELSE IF s[kEnd + 1] # ":" THEN NoObject
    ELSE LET isString == s[kEnd + 2] = Quote
             vEnd == IF isString THEN IndexFrom(s, Quote, kEnd + 3)
                     ELSE ObjectAt(s, kEnd + 2).end
             key == SubSeq(s, i + 1, kEnd - 1)
             model2 == IF key # ModelKey THEN model
                       ELSE IF isString THEN SubSeq(s, kEnd + 3, vEnd - 1)
                       ELSE <<"object">>
         IN IF vEnd = 0 \/ vEnd + 1 > Len(s) THEN NoObject
            ELSE IF s[vEnd + 1] = "}" THEN [end |-> vEnd + 1, model |-> model2]
            ELSE IF s[vEnd + 1] = "," THEN MembersAt(s, vEnd + 2, model2)
            ELSE NoObject

LeadingObject(stream) == ObjectAt(Whole(stream), 1)

Finished(i) == req[i].pc = "finished" /\ req[i].bot # 0

Bot(i) == objs[req[i].bot]

-----------------------------------------------------------------------------
(* Claims about the stream decoder *)

\* C1: a stream that starts with a valid JSON object followed by text ends,
\* under every chunking, with the metadata extracted exactly once, the
\* model taken from the object and the text equal to what follows the object.
C1_PreambleThenText ==
  \A i \in Requests :
    (Finished(i) /\ LeadingObject(req[i].stream).end > 0) =>
      /\ req[i].strips = 1
      /\ Bot(i).model = LeadingObject(req[i].stream).model
      /\ Bot(i).text = SubstringFrom(Whole(req[i].stream), LeadingObject(req[i].stream).end)

\* C2: the final text and model do not depend on the chunk boundaries: every
\* chunking ends as the delivery of the whole body in one chunk does.
C2_ChunkingIndependent ==
  \A i \in Requests :
    Finished(i) =>
      Bot(i) = DecodeChunk(createUiMessage("assistant", <<>>), req[i].stream).msg

\* C3: a stream that does not start with a valid JSON object ends, under
\* every chunking, with the whole body as the text.
C3_NoPreambleVerbatim ==
  \A i \in Requests :
    (Finished(i) /\ LeadingObject(req[i].stream).end = 0) =>
      Bot(i).text = Whole(req[i].stream)

\* C4: within one stream JSON.parse is attempted at most once, and after the
\* attempt nothing is stripped from the text any more.
C4_ParseAttemptedOnce ==
  \A i \in Requests : req[i].attempts <= 1

-----------------------------------------------------------------------------
(* The history list on its own: the page starts with a stored history and  *)
(* every request is answered without a body.                               *)

HistoryTexts == { <<"a">>, <<"b">>, <<"c">>, <<"d">> }

NoDuplicates(h) ==
  \A p, q \in 1..Len(h) : p # q => Trim(h[p]) # Trim(h[q])

\* the lists earlier sends can have stored: trimmed texts, no two equal
Histories == { h \in SeqsUpTo(HistoryTexts, MaxHist) : NoDuplicates(h) }

HistoryComposeTexts ==
  { <<"a">>, <<" ", "a">>, <<"b", " ">>, <<"c">>, <<"d">>, <<" ">> }

NoBody == Response(204, FALSE, <<>>)

InitHistory == \E h \in Histories : InitWith(GoodKey, h)

\* Composer.tsx lines 44-49, from the history menu
clearMessageHistory ==
  /\ PageActive
  /\ menuMessages' = <<>>
  /\ lsHistory' = <<>>
  /\ UNCHANGED <<messages, objs, disableCompose, settingsShown, composeText,
                 lsApiKey, req, nsent, elsewhere>>

NextHistory ==
  \/ \E t \in HistoryComposeTexts : ChangeComposeText(t)
  \/ SendClicked
  \/ handleKeyPress
  \/ clearMessageHistory
  \/ \E i \in Requests : FetchResolve(i, NoBody)
  \/ \E i \in Requests : ThenCallback(i)

SpecHistory == InitHistory /\ [][NextHistory]_vars

-----------------------------------------------------------------------------
(* Claims about the send pipeline *)

InFlightSet == { i \in Requests : InFlight(i) }

UserCount(o) == Cardinality({ u \in 1..Len(o) : o[u].role = "user" })

\* C5: at most one request is in flight; while one is, disableCompose is
\* true, and while disableCompose is true no step (a click on Send or Enter
\* included) starts a request or adds a user entry.
C5_SingleFlight ==
  /\ [](Cardinality(InFlightSet) <= 1 /\ (InFlightSet # {} => disableCompose))
  /\ [][disableCompose => (nsent' = nsent /\ UserCount(objs') = UserCount(objs))]_vars

\* a request is in flight while a text is ready to send: Enter is pressed in vain
C5_Witness ==
  /\ InFlightSet # {}
  /\ PageActive
  /\ Len(Trim(composeText)) > 0
  /\ nsent < MaxSends

\* C6: once read() has reported the end of the stream, the pipeline gets
\* back to idle (disableCompose false), and the assistant message of a
\* finished request does not change any more.
C6_ReturnsToIdle ==
  /\ \A i \in Requests :
       (req[i].pc = "returned") ~> (req[i].pc = "finished" /\ ~disableCompose)
  /\ [][\A i \in Requests :
          Finished(i) => objs'[req[i].bot] = objs[req[i].bot]]_vars

C6_Witness ==
  \E i \in Requests :
    /\ Finished(i)
    /\ ~disableCompose
    /\ req[i].rest = <<>>
    /\ req[i].bot \in Range(messages)
    /\ Bot(i).model = Gpt4
    /\ Bot(i).text = Hello

\* C7: a response with a non-success status ends with an assistant message
\* whose text names the status code and the error payload, and the body is
\* not run through the preamble parsing.
C7_ErrorStatusSurfaced ==
  \A i \in Requests :
    (Finished(i) /\ ~IsOk(req[i].status)) =>
      /\ Contains(Bot(i).text, Code503)
      /\ Contains(Bot(i).text, Overloaded)
      /\ req[i].attempts = 0
      /\ ~disableCompose

\* C8: a request that failed at transport level (fetch or read() rejected)
\* has put an assistant message with the error text into the Conversation
\* and has released disableCompose.
C8_TransportFailureSurfaced ==
  \A i \in Requests :
    req[i].pc = "failed" =>
      /\ ~disableCompose
      /\ \E k \in Range(messages) :
           objs[k].role = "assistant" /\ Contains(objs[k].text, ErrorText)

\* C9, as stated: while no valid API key is stored, no step dispatches a
\* chat request.
C9_NoKeyBlocksSend ==
  [][~isValidOpenAIApiKey(loadOpenAIApiKey) => nsent' = nsent]_vars

\* C9, amended: without a valid stored key the page starts with the settings
\* dialog open, and no chat request is dispatched while the dialog is open.
C9_PromptAtStartup ==
  /\ ~isValidOpenAIApiKey(loadOpenAIApiKey) => settingsShown
  /\ [][(~isValidOpenAIApiKey(loadOpenAIApiKey) /\ settingsShown) => nsent' = nsent]_vars

\* the dialog was closed and a request went out with the empty key
C9_Witness ==
  /\ ~isValidOpenAIApiKey(loadOpenAIApiKey)
  /\ ~settingsShown
  /\ nsent >= 1
  /\ req[1].pc # "none"
  /\ req[1].apiKey = <<>>

-----------------------------------------------------------------------------
(* Claims about the history list *)

\* C10: a send of a text T that the stored history already holds (after
\* trimming) keeps the length of the history, puts T at index 0 and keeps the
\* order of the other entries; the stored history never holds two entries
\* that are equal after trimming.
C10_BubbleToTop ==
  /\ [](NoDuplicates(lsHistory))
  /\ [][nsent' = nsent + 1 =>
          LET T == Trim(composeText)
              Other(m) == Trim(m) # T
          IN (\E k \in 1..Len(lsHistory) : Trim(lsHistory[k]) = T) =>
               /\ Len(lsHistory') = Len(lsHistory)
               /\ lsHistory'[1] = T
               /\ Tail(lsHistory') = SelectSeq(lsHistory, Other)]_vars

\* the last of three stored texts was sent again and is now the first
C10_Witness ==
  /\ nsent = 1
  /\ Len(menuMessages) = 3
  /\ Len(lsHistory) = 3
  /\ lsHistory = <<menuMessages[3], menuMessages[1], menuMessages[2]>>

-----------------------------------------------------------------------------
(* The history list when it is full or nearly full: the stored list is a   *)
(* window of MaxMessages - 1 or MaxMessages letters of the alphabet.       *)

MaxOffset == 2

Letters ==
  <<"a", "b", "c", "d", "e", "f", "g", "h", "i", "j", "k", "l", "m",
    "n", "o", "p", "q", "r", "s", "t", "u", "v", "w", "x", "y", "z">>

Window(off, n) == [j \in 1..n |-> <<Letters[j + off]>>]

LongHistories ==
  { Window(off, n) : off \in 0..MaxOffset, n \in (MaxMessages - 1)..MaxMessages }

InitHistoryFull == \E h \in LongHistories : InitWith(GoodKey, h)

SpecHistoryFull == InitHistoryFull /\ [][NextHistory]_vars

\* C11: the stored history never holds more than 20 entries; a send of a
\* text the history does not hold, when 20 are stored, drops the last entry
\* and keeps the other 19 in their order behind the new one.
C11_BoundedHistory ==
  /\ [](Len(lsHistory) <= 20)
  /\ [][nsent' = nsent + 1 =>
          LET T == Trim(composeText) IN
            (Len(lsHistory) = 20 /\ \A k \in 1..Len(lsHistory) : Trim(lsHistory[k]) # T) =>
              lsHistory' = <<T>> \o SubSeq(lsHistory, 1, 19)]_vars

\* twenty texts were stored and a twenty-first was sent: the oldest is gone
C11_Witness ==
  /\ nsent = 1
  /\ Len(menuMessages) = 20
  /\ Len(lsHistory) = 20
  /\ \A k \in 1..20 : menuMessages[k] # lsHistory[1]
  /\ SubSeq(lsHistory, 2, 20) = SubSeq(menuMessages, 1, 19)
  /\ \A k \in 1..20 : lsHistory[k] # menuMessages[20]

-----------------------------------------------------------------------------
(* The relay (src/unnamed/part_001): handler and OpenAIStream.

   relay.pc     where the handler is: "idle", "fetch" (OpenAIStream awaits the
                upstream fetch), "feeding" (start() is in its for-await loop),
                "returned" (start() returned, or the handler answered without
                a stream), "threw" (start() rejected)
   relay.res    the upstream response
   relay.fed    the SSE events the parser has emitted so far
   relay.status the HTTP status of the handler's Response, 0 before it
   relay.body   every chunk put into the Response body, in order
   relay.state  the output stream: "readable", "closed" (close() was called),
                "errored"                                                    *)

MaxEvents == 3

\* a body that res.json() cannot read
Unparsable == "<html>"
BadGateway ==
  [defined |-> TRUE, ok |-> FALSE, status |-> "502",
   statusText |-> "Bad Gateway", json |-> Unparsable]
UpstreamResponses ==
  { [defined |-> TRUE, ok |-> TRUE, status |-> "200", statusText |-> "OK", json |-> ""],
    [defined |-> TRUE, ok |-> FALSE, status |-> "429",
     statusText |-> "Too Many Requests", json |-> "{\"error\":\"rate\"}"],
    BadGateway }

\* what eventsource-parser hands to the callback
SseEvent(type, data, role, content) ==
  [type |-> type, data |-> data, role |-> role, content |-> content]
ReconnectInterval == SseEvent("reconnect-interval", "", "", "")
Done == SseEvent("event", "[DONE]", "", "")
Garbage == SseEvent("event", "garbage", "", "")
RoleDelta == SseEvent("event", "json", "assistant", "")
ContentDelta == SseEvent("event", "json", "", "Hi")
EmptyDelta == SseEvent("event", "json", "", "")
SseEvents == {ReconnectInterval, Done, Garbage, RoleDelta, ContentDelta, EmptyDelta}

Chunk(kind, text) == [kind |-> kind, text |-> text]
MissingKeyChunk == Chunk("error", <<"Error: missing OpenAI API Key.">>)
ErrorChunk(res) ==
  Chunk("error", <<"OpenAI API error: ", res.status, res.statusText,
                   IF res.json = Unparsable THEN "{}" ELSE res.json>>)
FirstPacket == Chunk("preamble", <<"{\"model\":", "\"gpt-4\"", "}">>)
TextChunk(text) == Chunk("text", <<text>>)

\* controller.enqueue(chunk): throws once the stream is closed or errored
Enqueue(r, chunk) ==
  IF r.state = "readable"
    THEN [ok |-> TRUE, r |-> [r EXCEPT !.body = Append(@, chunk)]]
    ELSE [ok |-> FALSE, r |-> r]

\* controller.error(e): does nothing unless the stream is readable; a stream
\* whose close() was called stays readable until the client has drained it
ControllerError(r, drained) ==
  IF r.state = "readable" \/ (r.state = "closed" /\ ~drained)
    THEN [r EXCEPT !.state = "errored"]
    ELSE r

\* start(controller) up to its loop, lines 68-85, without the close() of line 80
StartStream_NoClose(r, res) ==
  IF ~res.ok
    THEN [Enqueue(r, ErrorChunk(res)).r EXCEPT !.pc = "returned"]
    ELSE [r EXCEPT !.pc = "feeding"]

\* start(controller) up to its loop, lines 68-85
StartStream(r, res) ==
  IF ~res.ok
    THEN [Enqueue(r, ErrorChunk(res)).r EXCEPT !.pc = "returned", !.state = "closed"]
    ELSE [r EXCEPT !.pc = "feeding", !.sentFirstPacket = FALSE]

\* lines 108-114 without the flag
SendFirstPacket_NoFlag(r) == Enqueue(r, FirstPacket)

\* lines 108-114
SendFirstPacket(r) ==
  IF ~r.sentFirstPacket
    THEN Enqueue([r EXCEPT !.sentFirstPacket = TRUE], FirstPacket)
    ELSE [ok |-> TRUE, r |-> r]

\* the parser's callback, lines 89-125; an exception that leaves it leaves
\* parser.feed and start() too, and the stream turns the rejection of start()
\* into controller.error
OnParse(r, event, drained) ==
  IF event.type # "event" THEN r
  ELSE IF event.data = "[DONE]" THEN
    IF r.state = "readable"
      THEN [r EXCEPT !.state = "closed"]
      ELSE [ControllerError(r, drained) EXCEPT !.pc = "threw"]
  ELSE IF event.data = "garbage" THEN ControllerError(r, drained)
  ELSE IF event.role # "" THEN r
  ELSE LET first == SendFirstPacket(r) IN
    IF ~first.ok THEN ControllerError(first.r, drained)
    ELSE LET text == Enqueue(first.r, TextChunk(event.content)) IN
      IF text.ok THEN text.r ELSE ControllerError(text.r, drained)

page == <<messages, objs, disableCompose, settingsShown, composeText,
          menuMessages, lsHistory, lsApiKey, req, nsent>>

\* handler, lines 154-168, up to the upstream fetch of OpenAIStream
HandlerRequest(hasKey) ==
  /\ relay.pc = "idle"
  /\ relay' = IF ~hasKey
                THEN [relay EXCEPT !.pc = "returned", !.status = 400,
                                   !.body = <<MissingKeyChunk>>, !.state = "closed"]
                ELSE [relay EXCEPT !.pc = "fetch"]
  /\ UNCHANGED <<page, voice, render, settings>>

\* the upstream fetch resolves: OpenAIStream builds the stream, whose start()
\* runs at once, and the handler answers with it (line 175)
UpstreamResolve(res) ==
  /\ relay.pc = "fetch"
  /\ relay' = StartStream([relay EXCEPT !.res = res, !.status = 200,
                                        !.state = "readable"], res)
  /\ UNCHANGED <<page, voice, render, settings>>

\* the upstream fetch is rejected: res is undefined and `res.ok` throws in start()
UpstreamReject ==
  /\ relay.pc = "fetch"
  /\ relay' = [relay EXCEPT !.pc = "threw", !.status = 200, !.state = "errored"]
  /\ UNCHANGED <<page, voice, render, settings>>

\* one turn of the loop of lines 128-129 that makes the parser emit an event
FeedEvent(event, drained) ==
  /\ relay.pc = "feeding"
  /\ Len(relay.fed) < MaxEvents
  /\ relay' = OnParse([relay EXCEPT !.fed = Append(@, event)], event, drained)
  /\ UNCHANGED <<page, voice, render, settings>>

\* the upstream body ends: the loop is left and start() returns (line 131)
UpstreamEnd ==
  /\ relay.pc = "feeding"
  /\ relay' = [relay EXCEPT !.pc = "returned"]
  /\ UNCHANGED <<page, voice, render, settings>>

NextRelay ==
  \/ \E hasKey \in BOOLEAN : HandlerRequest(hasKey)
  \/ \E res \in UpstreamResponses : UpstreamResolve(res)
  \/ UpstreamReject
  \/ \E event \in SseEvents : \E drained \in BOOLEAN : FeedEvent(event, drained)
  \/ UpstreamEnd

SpecRelay == InitWith(GoodKey, <<>>) /\ [][NextRelay]_vars

\* C12 (as stated): when the upstream response is not ok, the handler answers
\* with a non-2xx status and the error description as the entire body.
C12_NonOkStatus ==
  (relay.res.defined /\ ~relay.res.ok /\ relay.status # 0) =>
    /\ relay.status \notin 200..299
    /\ relay.body = <<ErrorChunk(relay.res)>>

\* C12 (amended): when the upstream response is not ok, the handler answers
\* with status 200 and a stream that carries the error description as its
\* only chunk and is then closed.
C12_ErrorInStream ==
  (relay.res.defined /\ ~relay.res.ok /\ relay.status # 0) =>
    /\ relay.status = 200
    /\ relay.body = <<ErrorChunk(relay.res)>>
    /\ relay.state = "closed"
    /\ relay.pc = "returned"

C12_Witness ==
  /\ relay.res = BadGateway
  /\ relay.status = 200
  /\ relay.body = <<Chunk("error", <<"OpenAI API error: ", "502", "Bad Gateway", "{}">>)>>

\* the positions in the body of the chunks of a kind
ChunksOf(kind) == {k \in DOMAIN relay.body : relay.body[k].kind = kind}

\* C13: the relay enqueues the preamble at most once, and before any text:
\* no text chunk precedes it, none comes without it, and no preamble follows text.
C13_PreambleOnceFirst ==
  /\ Cardinality(ChunksOf("preamble")) <= 1
  /\ \A t \in ChunksOf("text") : \E p \in ChunksOf("preamble") : p < t

C13_Witness ==
  /\ Cardinality(ChunksOf("preamble")) = 1
  /\ Cardinality(ChunksOf("text")) = 2
  /\ \E k \in DOMAIN relay.fed : relay.fed[k] = RoleDelta
  /\ \E k \in DOMAIN relay.fed : relay.fed[k] = EmptyDelta

\* C14: once the upstream has ended, with or without '[DONE]', the output
\* stream has ended too (it is closed or errored, never left readable).
C14_StreamEnds ==
  relay.pc \in {"returned", "threw"} => relay.state # "readable"

-----------------------------------------------------------------------------
(* Claims about the Conversation list *)

\* C15: every step either empties the Conversation or keeps all its entries,
\* in their order and with their roles, possibly with one more at the end.
C15_ClearOrKeep ==
  [][\/ messages' = <<>>
     \/ /\ IsPrefix(messages, messages')
        /\ \A k \in 1..Len(messages) : objs'[messages[k]].role = objs[messages[k]].role]_vars

\* a first exchange was cleared and a second one is listed, its answer grown
C15_Witness ==
  /\ nsent = 2
  /\ Len(objs) = 4
  /\ messages = <<3, 4>>
  /\ objs[4].role = "assistant"
  /\ objs[4].text # <<>>

\* C18: the Conversation never holds two entries with the uid of a request's
\* assistant message.
C18_OneEntryPerStream ==
  \A i \in Requests :
    req[i].bot # 0 => Cardinality({ k \in 1..Len(messages) : messages[k] = req[i].bot }) <= 1

\* the list was cleared while the answer was streaming, and the answer is back
C18_Witness ==
  /\ req[1].pc = "finished"
  /\ messages = <<req[1].bot>>
  /\ objs[req[1].bot].text = Hello

\* the uid of the user's entry of request i
UserUid(i) ==
  CHOOSE u \in 1..Len(objs) :
    objs[u].role = "user" /\ UserCount(SubSeq(objs, 1, u)) = i

\* C19 (as stated): from dispatch on, the Conversation holds an assistant
\* entry for the request right after the user's entry.
C19_PendingFromDispatch ==
  \A i \in Requests :
    req[i].pc # "none" =>
      \E k \in 1..(Len(messages) - 1) :
        /\ messages[k] = UserUid(i)
        /\ objs[messages[k + 1]].role = "assistant"

\* C19 (amended): the assistant message of a request is in the Conversation,
\* after the user's entry, exactly when a chunk of the stream has been read.
C19_EntersWithFirstChunk ==
  \A i \in Requests :
    req[i].bot # 0 =>
      IF Len(req[i].rest) < Len(req[i].stream)
        THEN messages = <<UserUid(i), req[i].bot>>
        ELSE messages = <<UserUid(i)>>

\* the stream closed without a chunk: the user's entry stands alone
C19_Witness ==
  /\ req[1].pc = "finished"
  /\ req[1].bot # 0
  /\ req[1].stream = <<>>
  /\ messages = <<1>>

\* the length of the text of request i's answer as the Conversation shows it
SeenLength(i) ==
  IF req[i].bot # 0 /\ req[i].bot \in Range(messages)
    THEN Len(objs[req[i].bot].text)
    ELSE 0

\* C20: from one update to the next the text of the pending message, as the
\* Conversation shows it, never gets shorter.
C20_TextGrows ==
  [][\A i \in Requests : SeenLength(i)' >= SeenLength(i)]_vars

-----------------------------------------------------------------------------
(* Dictation: Voice (src/pages/index.tsx lines 577-784) and the Composer's
   isRecording (Composer.tsx lines 33, 60-72, 156).

   voice.open            isRecording of the Composer, the dialog's `open`
   voice.recordingState  'start', 'listening' or 'end'
   voice.message         the text the dialog shows
   voice.timer           the timeout of lines 724-729 is pending
   voice.recognition     "running" while the recognizer started by the effect
                         of lines 583-720 has neither ended nor been stopped
   voice.stopping        a recognizer was stopped by the effect's cleanup and
                         has not yet reported its end                        *)

\* 正在收听..., the text shown when listening starts
ListeningText == <<"Listening...">>

Transcripts == { <<"h">>, <<"h", "i">>, <<"h", "i", "!">> }

VoiceUnchanged ==
  UNCHANGED <<messages, objs, disableCompose, settingsShown, menuMessages,
              lsHistory, lsApiKey, req, nsent, relay, render, settings>>

\* Composer.tsx lines 60-67 with the microphone granted, and the effect of
\* lines 722-733 for open = true
handleRecordButtonClicked ==
  /\ PageActive
  /\ ~disableCompose
  /\ ~voice.open
  /\ voice' = [voice EXCEPT !.open = TRUE, !.timer = TRUE]
  /\ composeText' = composeText
  /\ VoiceUnchanged

\* the timeout of lines 725-728 fires; the effect of lines 583-720 then
\* starts the recognizer (line 706-709)
TimerFires ==
  /\ voice.timer
  /\ voice' = [voice EXCEPT !.timer = FALSE, !.recordingState = "listening",
                            !.message = ListeningText, !.recognition = "running"]
  /\ composeText' = composeText
  /\ VoiceUnchanged

\* recognition.onresult, lines 682-684
OnResult(transcript) ==
  /\ voice.recognition = "running" \/ voice.stopping
  /\ voice' = [voice EXCEPT !.message = transcript]
  /\ composeText' = composeText
  /\ VoiceUnchanged

\* recognition.onend of the running recognizer, lines 686-689
OnEnd ==
  /\ voice.recognition = "running"
  /\ voice' = [voice EXCEPT !.recordingState = "end", !.recognition = "none"]
  /\ composeText' = composeText
  /\ VoiceUnchanged

\* recognition.onend of a recognizer that the cleanup of lines 711-719 stopped;
\* leaving 'listening' makes the cleanup stop the running recognizer
OnEndAfterStop ==
  /\ voice.stopping
  /\ voice' = [voice EXCEPT !.recordingState = "end", !.recognition = "none",
                            !.stopping = (voice.recognition = "running")]
  /\ composeText' = composeText
  /\ VoiceUnchanged

\* the dialog is dismissed: handleClose (lines 735-737), handleRecordClose
\* (Composer.tsx lines 69-72) and the effect of lines 722-733 for open = false
handleClose ==
  /\ voice.open
  /\ composeText' = voice.message
  /\ voice' = [voice EXCEPT !.open = FALSE, !.timer = FALSE, !.recordingState = "start",
                            !.message = StartSpeaking, !.recognition = "none",
                            !.stopping = (voice.stopping \/ voice.recognition = "running")]
  /\ VoiceUnchanged

NextVoice ==
  \/ \E t \in ComposeTexts : ChangeComposeText(t)
  \/ handleRecordButtonClicked
  \/ TimerFires
  \/ \E t \in Transcripts : OnResult(t)
  \/ OnEnd
  \/ OnEndAfterStop
  \/ handleClose

SpecVoice == InitWith(GoodKey, <<>>) /\ [][NextVoice]_vars

\* C16: a dictation session ends on dismissal and on the recognizer's onend:
\* in a step that dismisses the open dialog or delivers onend to it, the
\* dialog closes and the Composer's text becomes the transcript shown.
C16_SessionHandsTranscript ==
  [][(voice.open /\ (~voice'.open \/ (voice'.recordingState = "end" /\ voice.recordingState # "end")))
       => (~voice'.open /\ composeText' = voice.message)]_vars

\* C25: the Composer's text is never one of the dialog's prompts: a dismissal
\* before any recognition result does not put a placeholder into it.
C25_NoPlaceholderHandedOver ==
  composeText \notin {StartSpeaking, ListeningText}

-----------------------------------------------------------------------------
(* ChatMessage (src/unnamed/part_003): parseAndHighlightCodeBlocks.
   The regular expression of line 36 is
       `{3,}(\w+)?\n([\s\S]*?)(`{3,}|$)
   and a block is [type, content, language]; the content of a code block is
   its `code`, the highlighted markup is left out.                          *)

MaxText == 5

\* the backtick character, written as a token
BackTick == "<backtick>"
NewLine == "\n"

\* \w of the regular expression, over the characters the inputs use
WordChars == Range(Letters) \cup {"1", "_"}

RECURSIVE RunLength(_, _, _)
\* the number of characters from s[i] on that are in set
RunLength(s, i, set) ==
  IF i <= Len(s) /\ s[i] \in set THEN 1 + RunLength(s, i + 1, set) ELSE 0

NoMatch == [index |-> 0, language |-> <<>>, code |-> <<>>, end |-> 0]

RECURSIVE FenceFrom(_, _)
\* the first position from j on where a run of three or more backticks
\* starts, or the position after the end of the text: (`{3,}|$) after a lazy
\* ([\s\S]*?)
FenceFrom(s, j) ==
  IF j > Len(s) \/ RunLength(s, j, {BackTick}) >= 3 THEN j ELSE FenceFrom(s, j + 1)

\* the match of the regular expression that starts at s[i], index = 0 when
\* there is none: the groups (\w+)? and ([\s\S]*?), and the position after
\* the match
MatchAt(s, i) ==
  LET ticks == RunLength(s, i, {BackTick})
      word == RunLength(s, i + ticks, WordChars)
      nl == i + ticks + word
      close == FenceFrom(s, nl + 1)
  IN IF ticks >= 3 /\ nl <= Len(s) /\ s[nl] = NewLine
       THEN [index |-> i, language |-> SubSeq(s, i + ticks, nl - 1),
             code |-> SubSeq(s, nl + 1, close - 1),
             end |-> close + RunLength(s, close, {BackTick})]
       ELSE NoMatch

RECURSIVE Exec(_, _)
\* codeBlockRegex.exec(text) with lastIndex = i - 1: the leftmost match from
\* s[i] on
Exec(s, i) ==
  IF i > Len(s) THEN NoMatch
  ELSE IF MatchAt(s, i).index # 0 THEN MatchAt(s, i)
  ELSE Exec(s, i + 1)

Typescript == <<"t", "y", "p", "e", "s", "c", "r", "i", "p", "t">>

TextBlock(content) == [type |-> "text", content |-> content, language |-> <<>>]
CodeBlock(code, language) == [type |-> "code", content |-> code, language |-> language]

\* line 44 without the trim
codeBlock_NoTrim(match2) == match2

\* line 44
codeBlock(match2) == Trim(match2)

RECURSIVE ParseFrom(_, _)
\* the loop of lines 42-51 and the rest of lines 53-55, with lastIndex = i - 1
ParseFrom(text, i) ==
  LET match == Exec(text, i) IN
    IF match.index = 0
      THEN IF i - 1 < Len(text) THEN <<TextBlock(SubSeq(text, i, Len(text)))>> ELSE <<>>
      ELSE <<TextBlock(SubSeq(text, i, match.index - 1)),
             CodeBlock(codeBlock(match.code),
                       IF match.language = <<>> THEN Typescript ELSE match.language)>>
           \o ParseFrom(text, match.end)

parseAndHighlightCodeBlocks(text) == ParseFrom(text, 1)

Fence == <<BackTick, BackTick, BackTick>>

\* prose p1, a fence with language tag l, code c on its own lines, a closing
\* fence, prose p2
Fenced(p1, l, c, p2) == p1 \o Fence \o l \o <<NewLine>> \o c \o <<NewLine>> \o Fence \o p2

Js == <<"j", "s">>
ConsoleLog == <<"c", "o", "n", "s", "o", "l", "e", ".", "l", "o", "g", "(", "1", ")">>

Proses1 == { <<"a", NewLine>>, <<"a">>, <<"a", " ">> }
Proses2 == { <<NewLine, "b">>, <<"b">>, <<" ", "b">> }
Languages == { Js, <<"p", "y", "_", "1">> }
Codes == { ConsoleLog, <<"x">>, <<"x", NewLine, "y">>, <<"x", " ", "=", " ", "1">>,
           <<"x", BackTick, "y">> }

RenderTexts ==
  { Fenced(p1, l, c, p2) : p1 \in Proses1, l \in Languages, c \in Codes, p2 \in Proses2 }
    \cup SeqsUpTo({BackTick, NewLine, "a"}, MaxText)

InitRender ==
  \E text \in RenderTexts :
    /\ PageInit(GoodKey, <<>>)
    /\ relay = RelayIdle
    /\ voice = VoiceIdle
    /\ settings = SettingsInit
    /\ render = [text |-> text, blocks |-> <<>>, done |-> FALSE]

\* ChatMessage renders the text: part_003 lines 35-57
RenderMessage ==
  /\ ~render.done
  /\ render' = [render EXCEPT !.blocks = parseAndHighlightCodeBlocks(render.text),
                              !.done = TRUE]
  /\ UNCHANGED <<page, relay, voice, settings>>

SpecRender == InitRender /\ [][RenderMessage]_vars

-----------------------------------------------------------------------------
(* Further claims about the stream decoder and the Conversation list *)

\* C21: for a stream that starts with a preamble carrying a model, no state
\* of the Conversation shows the pending message with a non-empty text and
\* no model yet.
C21_MetadataBeforeText ==
  \A i \in Requests :
    (/\ req[i].bot # 0
     /\ req[i].bot \in Range(messages)
     /\ LeadingObject(req[i].stream).end > 0
     /\ ~Falsy(LeadingObject(req[i].stream).model)) =>
      (Bot(i).text # <<>> => ~Falsy(Bot(i).model))

\* C22: an empty Conversation stays empty until the next send: the only step
\* that makes it non-empty is a send.
C22_ClearedStaysEmpty ==
  [][(messages = <<>> /\ messages' # <<>>) => nsent' = nsent + 1]_vars

-----------------------------------------------------------------------------
(* Further claims about the Composer's history *)

\* C23: the list of the history menu equals the stored history in every
\* state, after a send as after clearMessageHistory.
C23_MenuEqualsStored ==
  menuMessages = lsHistory

-----------------------------------------------------------------------------
(* The Settings dialog (src/unnamed/part_002 lines 44-102).

   settings.apiKey      the key field
   settings.gptModel    the model select
   settings.lsGptModel  the stored model, <<>> when none is stored          *)

ShortKey == <<"s", "k", "-", "1">>
OtherKey == [i \in 1..41 |-> IF i = 1 THEN "s" ELSE IF i = 2 THEN "k" ELSE IF i = 3 THEN "-" ELSE "B"]
KeyInputs == { <<>>, ShortKey, GoodKey, OtherKey }
ModelOptions == { DefaultModel, <<"g", "p", "t", "-", "3", ".", "5", "-", "t", "u", "r", "b", "o">> }

SettingsUnchanged ==
  UNCHANGED <<messages, objs, disableCompose, composeText, menuMessages,
              lsHistory, req, nsent, relay, voice, render>>

\* lines 48-49
handleApiKeyChange(value) ==
  /\ settingsShown
  /\ settings' = [settings EXCEPT !.apiKey = value]
  /\ UNCHANGED <<settingsShown, lsApiKey>>
  /\ SettingsUnchanged

\* lines 51-52
handleGptModelChange(value) ==
  /\ settingsShown
  /\ settings' = [settings EXCEPT !.gptModel = IF value # <<>> THEN value ELSE DefaultModel]
  /\ UNCHANGED <<settingsShown, lsApiKey>>
  /\ SettingsUnchanged

\* lines 57-61 with storeOpenAIApiKey and storeGptModel (lines 21-31) and the
\* onClose of index.tsx line 225
handleSaveClicked ==
  /\ lsApiKey' = settings.apiKey
  /\ settings' = [settings EXCEPT !.lsGptModel = settings.gptModel]
  /\ settingsShown' = FALSE
  /\ SettingsUnchanged

\* the Save button, line 93: disabled unless the key is valid
SaveClicked ==
  /\ settingsShown
  /\ isValidOpenAIApiKey(settings.apiKey)
  /\ handleSaveClicked

\* Enter in the key field, lines 54-55
handleApiKeyDown ==
  /\ settingsShown
  /\ handleSaveClicked

NextSettings ==
  \/ OpenSettings
  \/ CloseSettings
  \/ \E value \in KeyInputs : handleApiKeyChange(value)
  \/ \E value \in ModelOptions : handleGptModelChange(value)
  \/ SaveClicked
  \/ handleApiKeyDown

SpecSettings == Init /\ [][NextSettings]_vars

\* C24: the stored API key changes only to a valid key: a save with an
\* invalid key in the field leaves the stored key as it was.
C24_OnlyValidKeyStored ==
  [][lsApiKey' # lsApiKey => isValidOpenAIApiKey(lsApiKey')]_vars

====
